---- MODULE Spec2Model ----
(***************************************************************************)
(* Model of twitchdl/playlists.py: enumerate_vods, filter_vods,             *)
(* make_join_playlist, parse_playlists, select_playlist_by_name,            *)
(* select_playlist_interactive and _playlist_key.                           *)
(*                                                                          *)
(* The document is the m3u8 object: `segments` lists its segment objects by *)
(* identity and `heap` holds their fields, so that aliasing is visible.     *)
(* Times are counted in ticks of 1/TicksPerSecond second: segment durations *)
(* are floats in the source (any number of ticks), while the start and end  *)
(* bounds are whole seconds (a multiple of TicksPerSecond ticks).           *)
(* An Optional value is None (the empty tuple) or Some(v) (a 1-tuple).      *)
(***************************************************************************)
EXTENDS Integers, Sequences, FiniteSets, TLC

VARIABLES
    pc,             \* position of the modelled run
    segments,       \* document.segments: sequence of segment object ids
    heap,           \* segment object id -> [uri, duration] (mutable objects)
    original,       \* the document's segment values as they were when loaded
    vods,           \* list(enumerate_vods(document))
    start,          \* filter_vods argument
    end,            \* filter_vods argument
    idx,            \* position of the for loop of filter_vods (1-based)
    vod_start,      \* filter_vods local
    crop_start,     \* filter_vods local
    crop_end,       \* filter_vods local
    filtered_vods,  \* filter_vods local
    crop_duration,  \* filter_vods local
    retained,       \* make_join_playlist argument vods
    targets,        \* make_join_playlist argument targets
    returned,       \* outcome of make_join_playlist
    document,       \* renditions of the master playlist, in document order
    playlists,      \* result of parse_playlists
    quality,        \* select_playlist_by_name argument
    listing,        \* the sorted list select_playlist_interactive shows
    offered,        \* the default choice select_playlist_interactive offers
    result          \* outcome of the select_playlist_* call

vars == <<pc, segments, heap, original, vods, start, end, idx, vod_start,
          crop_start, crop_end, filtered_vods, crop_duration, retained,
          targets, returned, document, playlists, quality, listing,
          offered, result>>

docVars    == <<segments, heap, original>>
filterVars == <<start, end, idx, vod_start, crop_start, crop_end,
                filtered_vods, crop_duration>>
joinVars   == <<retained, targets, returned>>
selectVars == <<document, playlists, quality, listing, offered, result>>

-----------------------------------------------------------------------------
(* Bounds *)

MaxVods == 3
MaxDuration == 3
MaxSeconds == 4
TicksPerSecond == 2
SegmentDuration == 2
MaxPlaylists == 3

-----------------------------------------------------------------------------
(* Optional values and Python truthiness *)

None == <<>>

Some(v) == <<v>>

Val(o) == o[1]

\* bool(x) that tells 0 from None: `is not None` in place of truthiness
TruthyNotNone(o) == o # None

\* bool(x) of an Optional number: None and 0 are falsy
Truthy(o) == o # None /\ Val(o) # 0

\* Python's `x or 0`
OrZero(o) == IF Truthy(o) THEN Val(o) ELSE 0

RECURSIVE SumDurations(_)
SumDurations(vs) ==
    IF vs = <<>> THEN 0 ELSE Head(vs).duration + SumDurations(Tail(vs))

-----------------------------------------------------------------------------
(* The media playlist document and enumerate_vods *)

\* A file name or URI path is kept as splitext splits it: (stem, ext)
Uris == { [stem |-> "a", ext |-> ".ts"], [stem |-> "b", ext |-> ".mp4"] }

\* f"{index:05d}": at least five digits, zero padded, never truncated
Pad5(index) ==
    IF index < 10 THEN "0000" \o ToString(index)
    ELSE IF index < 100 THEN "000" \o ToString(index)
    ELSE IF index < 1000 THEN "00" \o ToString(index)
    ELSE IF index < 10000 THEN "0" \o ToString(index)
    ELSE ToString(index)

Vod(index, path, duration, filename) ==
    [index |-> index, path |-> path, duration |-> duration,
     filename |-> filename]

enumerate_vods(segs, h) ==
    [ i \in 1..Len(segs) |->
        Vod(i - 1, h[segs[i]].uri, h[segs[i]].duration,
            [stem |-> Pad5(i - 1), ext |-> h[segs[i]].uri.ext]) ]

-----------------------------------------------------------------------------
(* filter_vods *)

\* crop_start with `start >= vod_start`: a start on a boundary counts as inside
NewCropStartInclusive(cur, s, vstart, vend) ==
    IF Truthy(s) /\ Val(s) >= vstart /\ Val(s) < vend
    THEN Some(Val(s) - vstart) ELSE cur

\* lines 88-89: crop_start after the first `if` of the loop body
NewCropStart(cur, s, vstart, vend) ==
    IF Truthy(s) /\ Val(s) > vstart /\ Val(s) < vend
    THEN Some(Val(s) - vstart) ELSE cur

\* lines 91-92: crop_end after the second `if` of the loop body
NewCropEnd(cur, e, vstart, vend) ==
    IF Truthy(e) /\ Val(e) > vstart /\ Val(e) < vend
    THEN Some(vend - Val(e)) ELSE cur

\* start_condition with `vod_end >= start`
start_condition_inclusive(s, vend) == ~Truthy(s) \/ vend >= Val(s)

start_condition(s, vend) == ~Truthy(s) \/ vend > Val(s)

end_condition(e, vstart) == ~Truthy(e) \/ vstart < Val(e)

\* One iteration of the for loop, on the loop's local state st
FilterBody(st, vod, s, e) ==
    LET vod_end == st.vod_start + vod.duration
    IN  [ filtered_vods |->
              IF start_condition(s, vod_end) /\ end_condition(e, st.vod_start)
              THEN Append(st.filtered_vods, vod)
              ELSE st.filtered_vods,
          vod_start |-> vod_end,
          crop_start |-> NewCropStart(st.crop_start, s, st.vod_start, vod_end),
          crop_end |-> NewCropEnd(st.crop_end, e, st.vod_start, vod_end) ]

FilterLocals == [ filtered_vods |-> <<>>, vod_start |-> 0,
                  crop_start |-> None, crop_end |-> None ]

\* crop_duration that forgets the leading crop
FilterCropDurationNoStart(st) ==
    IF Truthy(st.crop_end)
    THEN Some(SumDurations(st.filtered_vods) - Val(st.crop_end))
    ELSE None

\* The statements after the loop
FilterCropDuration(st) ==
    IF Truthy(st.crop_end)
    THEN Some(SumDurations(st.filtered_vods) - OrZero(st.crop_start)
              - Val(st.crop_end))
    ELSE None

RECURSIVE FilterWalk(_, _, _, _)
FilterWalk(st, vs, s, e) ==
    IF vs = <<>> THEN st
    ELSE FilterWalk(FilterBody(st, Head(vs), s, e), Tail(vs), s, e)

\* The whole call, as the triple it returns
filter_vods(vs, s, e) ==
    LET st == FilterWalk(FilterLocals, vs, s, e)
    IN  <<st.filtered_vods, st.crop_start, FilterCropDuration(st)>>

-----------------------------------------------------------------------------
(* make_join_playlist *)

\* A pathlib.Path: its parent directory and its final component (.name)
Path(dir, name) == [dir |-> dir, name |-> name]

\* zip(a, b) stops at the shorter of its arguments
ZipLen(a, b) == IF Len(a) <= Len(b) THEN Len(a) ELSE Len(b)

\* OrderedDict(zip([v.path for v in vods], targets)): a later pair with the
\* same key replaces the value of an earlier one
PathMap(vs, ts) ==
    LET n == ZipLen(vs, ts)
        last(u) == CHOOSE k \in 1..n :
                      /\ vs[k].path = u
                      /\ \A l \in 1..n : vs[l].path = u => l <= k
    IN  [ u \in { vs[k].path : k \in 1..n } |-> ts[last(u)] ]

\* The call: the document's own segment list and segment objects are
\* updated in place, and the document itself is returned.
make_join_playlist(segs, h, vs, ts) ==
    LET org_segments == segs
        path_map == PathMap(vs, ts)
        hit(id) == h[id].uri \in DOMAIN path_map
    IN  [ segments |-> SelectSeq(org_segments, hit),
          heap |-> [ id \in DOMAIN h |->
                       IF (\E i \in 1..Len(org_segments) : org_segments[i] = id)
                          /\ hit(id)
                       THEN [ h[id] EXCEPT !.uri = path_map[h[id].uri].name ]
                       ELSE h[id] ],
          returned |-> [kind |-> "ok", object |-> "document"] ]

-----------------------------------------------------------------------------
(* Renditions: parse_playlists, _playlist_key and the selectors *)

\* Text is a sequence of one-character strings (or of longer literal pieces)
Digits == <<"0", "1", "2", "3", "4", "5", "6", "7", "8", "9">>

IsDigit(c) == \E d \in 1..10 : Digits[d] = c

DigitValue(c) == (CHOOSE d \in 1..10 : Digits[d] = c) - 1

\* name.split("p")[0]: the text before the first "p", all of it without one
BeforeP(text) ==
    IF \E i \in 1..Len(text) : text[i] = "p"
    THEN SubSeq(text, 1,
                (CHOOSE i \in 1..Len(text) :
                    /\ text[i] = "p"
                    /\ \A j \in 1..(i - 1) : text[j] # "p") - 1)
    ELSE text

RECURSIVE DecimalValue(_, _)
DecimalValue(text, acc) ==
    IF text = <<>> THEN acc
    ELSE IF Head(text) = "_" THEN DecimalValue(Tail(text), acc)
    ELSE DecimalValue(Tail(text), 10 * acc + DigitValue(Head(text)))

\* int(text): an optional sign, then digits that single underscores may
\* separate; None stands for ValueError.  (The alphabet has no white space.)
ParseInt(text) ==
    LET signed == text # <<>> /\ Head(text) \in {"+", "-"}
        body == IF signed THEN Tail(text) ELSE text
        wellFormed ==
            /\ body # <<>>
            /\ \A i \in 1..Len(body) : IsDigit(body[i]) \/ body[i] = "_"
            /\ IsDigit(body[1]) /\ IsDigit(body[Len(body)])
            /\ \A i \in 1..(Len(body) - 1) :
                  ~(body[i] = "_" /\ body[i + 1] = "_")
    IN  IF ~wellFormed THEN None
        ELSE IF signed /\ Head(text) = "-" THEN Some(0 - DecimalValue(body, 0))
        ELSE Some(DecimalValue(body, 0))

MAX == 1000000

Chunked == <<"c", "h", "u", "n", "k", "e", "d">>

AudioOnly == <<"a", "u", "d", "i", "o", "_", "o", "n", "l", "y">>

SourceQuality == <<"s", "o", "u", "r", "c", "e">>

Playlist(name, group_id, resolution, url, is_source) ==
    [name |-> name, group_id |-> group_id, resolution |-> resolution,
     url |-> url, is_source |-> is_source]

_playlist_key(playlist) ==
    IF playlist.is_source THEN 0
    ELSE IF playlist.group_id = AudioOnly THEN MAX
    ELSE IF ParseInt(BeforeP(playlist.name)) # None
         THEN MAX - Val(ParseInt(BeforeP(playlist.name)))
    ELSE MAX

\* sorted(ps, key=_playlist_key): stable, ascending
RECURSIVE SortedByKey(_)
SortedByKey(ps) ==
    IF ps = <<>> THEN <<>>
    ELSE LET front == SortedByKey(SubSeq(ps, 1, Len(ps) - 1))
             x == ps[Len(ps)]
             notAfter(y) == _playlist_key(y) <= _playlist_key(x)
             after(y) == ~notAfter(y)
         IN  SelectSeq(front, notAfter) \o <<x>> \o SelectSeq(front, after)

\* "x".join(str(r) for r in resolution), or None
ResolutionText(resolution) ==
    IF resolution = None THEN None
    ELSE Some(<<ToString(Val(resolution)[1]), "x",
                ToString(Val(resolution)[2])>>)

\* entry: a variant of the master playlist with its first media
parse_playlists(doc) ==
    SortedByKey([ i \in 1..Len(doc) |->
        Playlist(doc[i].name, doc[i].group_id,
                 ResolutionText(doc[i].resolution), doc[i].uri,
                 doc[i].group_id = Chunked) ])

\* name matching that forgets the group id
MatchesNameOnly(playlist, q) == playlist.name = q

\* line 146
Matches(playlist, q) == playlist.name = q \/ playlist.group_id = q

\* ", ".join(names)
RECURSIVE Join(_)
Join(names) ==
    IF names = <<>> THEN <<>>
    ELSE IF Len(names) = 1 THEN names[1]
    ELSE names[1] \o <<",", " ">> \o Join(Tail(names))

SourceNotFound ==
    <<"Source quality not found, please report an issue on github.">>

QualityNotFound(q, ps) ==
    <<"Quality '">> \o q \o <<"' not found. Available qualities are: ">>
        \o Join([ i \in 1..Len(ps) |-> ps[i].name ])

Ok(playlist) == [kind |-> "ok", playlist |-> playlist]

Raise(exception, message) ==
    [kind |-> "error", exception |-> exception, message |-> message]

\* The position a `for ... return` loop stops at: the lowest in S
Lowest(S) == CHOOSE i \in S : \A j \in S : i <= j

select_playlist_by_name(ps, q) ==
    LET sources == { i \in 1..Len(ps) : ps[i].is_source }
        matching == { i \in 1..Len(ps) : Matches(ps[i], q) }
    IN  IF q = SourceQuality
        THEN IF sources # {}
             THEN Ok(ps[Lowest(sources)])
             ELSE Raise("ClickException", SourceNotFound)
        ELSE IF matching # {}
             THEN Ok(ps[Lowest(matching)])
             ELSE Raise("ClickException", QualityNotFound(q, ps))

\* lines 170-173: the offered default, the position of the last source
InteractiveDefault(ps) ==
    IF \E i \in 1..Len(ps) : ps[i].is_source
    THEN CHOOSE i \in 1..Len(ps) :
            ps[i].is_source /\ \A j \in (i + 1)..Len(ps) : ~ps[j].is_source
    ELSE 1

\* lines 176-177: playlists[no - 1]
InteractiveChoice(ps, no) ==
    IF no <= Len(ps) THEN Ok(ps[no]) ELSE Raise("IndexError", <<>>)

-----------------------------------------------------------------------------
(* Initial states *)

\* A loaded media playlist of at most MaxVods segments: one object per entry
DocumentLoaded(uris, durations) ==
    \E n \in 0..MaxVods :
        /\ segments = [ i \in 1..n |-> i ]
        /\ heap \in [ 1..n -> [uri : uris, duration : durations] ]
        /\ original = [ i \in 1..n |-> heap[i] ]

FilterIdle ==
    /\ start = None /\ end = None /\ idx = 0 /\ vod_start = 0
    /\ crop_start = None /\ crop_end = None /\ filtered_vods = <<>>
    /\ crop_duration = None

JoinIdle ==
    /\ retained = <<>> /\ targets = <<>> /\ returned = [kind |-> "none"]

SelectIdle ==
    /\ document = <<>> /\ playlists = <<>> /\ quality = <<>>
    /\ listing = <<>> /\ offered = 0 /\ result = [kind |-> "none"]

InitFilter ==
    /\ pc = "loaded"
    /\ DocumentLoaded({CHOOSE u \in Uris : TRUE}, 0..MaxDuration)
    /\ vods = <<>>
    /\ FilterIdle /\ JoinIdle /\ SelectIdle

InitJoin ==
    /\ pc = "loaded"
    /\ DocumentLoaded(Uris, {SegmentDuration})
    /\ vods = <<>>
    /\ FilterIdle /\ JoinIdle /\ SelectIdle

-----------------------------------------------------------------------------
(* Actions of the filter run *)

\* Whole seconds, in ticks, that the caller may pass as a bound
Bounds == {None} \cup { Some(k * TicksPerSecond) : k \in 0..MaxSeconds }

EnumerateVods ==
    /\ pc = "loaded"
    /\ vods' = enumerate_vods(segments, heap)
    /\ pc' = "enumerated"
    /\ UNCHANGED <<docVars, filterVars, joinVars, selectVars>>

\* filter_vods is entered: lines 76-83
FilterCall ==
    /\ pc = "enumerated"
    /\ \E s \in Bounds, e \in Bounds : start' = s /\ end' = e
    /\ filtered_vods' = FilterLocals.filtered_vods
    /\ vod_start' = FilterLocals.vod_start
    /\ crop_start' = FilterLocals.crop_start
    /\ crop_end' = FilterLocals.crop_end
    /\ crop_duration' = None
    /\ idx' = 1
    /\ pc' = "filter_loop"
    /\ UNCHANGED <<docVars, vods, joinVars, selectVars>>

\* one iteration of `for vod in vods`: lines 85-99
FilterLoop ==
    /\ pc = "filter_loop"
    /\ idx <= Len(vods)
    /\ LET st == FilterBody([filtered_vods |-> filtered_vods,
                             vod_start |-> vod_start,
                             crop_start |-> crop_start,
                             crop_end |-> crop_end], vods[idx], start, end)
       IN  /\ filtered_vods' = st.filtered_vods
           /\ vod_start' = st.vod_start
           /\ crop_start' = st.crop_start
           /\ crop_end' = st.crop_end
    /\ idx' = idx + 1
    /\ UNCHANGED <<pc, docVars, vods, start, end, crop_duration, joinVars,
                   selectVars>>

\* the loop is exhausted: lines 101-106
FilterReturn ==
    /\ pc = "filter_loop"
    /\ idx > Len(vods)
    /\ crop_duration' = FilterCropDuration([filtered_vods |-> filtered_vods,
                                            vod_start |-> vod_start,
                                            crop_start |-> crop_start,
                                            crop_end |-> crop_end])
    /\ pc' = "filter_done"
    /\ UNCHANGED <<docVars, vods, start, end, idx, vod_start, crop_start,
                   crop_end, filtered_vods, joinVars, selectVars>>

NextFilter == EnumerateVods \/ FilterCall \/ FilterLoop \/ FilterReturn

SpecFilter == InitFilter /\ [][NextFilter]_vars

-----------------------------------------------------------------------------
(* Actions of the join run *)

\* The sub-lists of vs, in order: the vods a caller may have downloaded
RECURSIVE SubSeqs(_)
SubSeqs(vs) ==
    IF vs = <<>> THEN { <<>> }
    ELSE LET rest == SubSeqs(Tail(vs))
         IN  rest \cup { <<Head(vs)>> \o r : r \in rest }

\* The local files of the vods: target directory / vod.filename
TargetPaths == { Path("tmp", vods[i].filename) : i \in 1..Len(vods) }

RECURSIVE SeqsUpTo(_, _)
SeqsUpTo(S, n) ==
    IF n = 0 THEN { <<>> }
    ELSE LET shorter == SeqsUpTo(S, n - 1)
         IN  shorter \cup { Append(q, x) : q \in shorter, x \in S }

MakeJoinPlaylist ==
    /\ pc = "enumerated"
    /\ \E vs \in SubSeqs(vods), ts \in SeqsUpTo(TargetPaths, Len(vods)) :
          LET r == make_join_playlist(segments, heap, vs, ts)
          IN  /\ retained' = vs
              /\ targets' = ts
              /\ segments' = r.segments
              /\ heap' = r.heap
              /\ returned' = r.returned
    /\ pc' = "joined"
    /\ UNCHANGED <<original, vods, filterVars, selectVars>>

NextJoin == EnumerateVods \/ MakeJoinPlaylist

SpecJoin == InitJoin /\ [][NextJoin]_vars

-----------------------------------------------------------------------------
(* Actions of the selection run *)

N1080p60 == <<"1", "0", "8", "0", "p", "6", "0">>

N720p60 == <<"7", "2", "0", "p", "6", "0">>

N2000000p == <<"2", "0", "0", "0", "0", "0", "0", "p">>

N4k == <<"4", "k">>

Names == {N1080p60, N720p60, AudioOnly, N2000000p}

GroupIds == {Chunked, N720p60, AudioOnly}

Qualities == {SourceQuality, N4k, N720p60, Chunked, AudioOnly}

\* stream_info.resolution of the variant that carries a name
ResolutionOf(name) ==
    IF name = N1080p60 THEN Some(<<1920, 1080>>)
    ELSE IF name = N720p60 THEN Some(<<1280, 720>>)
    ELSE None

Media == { [name |-> n, group_id |-> g, resolution |-> ResolutionOf(n),
            uri |-> <<"u">>] : n \in Names, g \in GroupIds }

InitSelect ==
    /\ pc = "master"
    /\ document \in SeqsUpTo(Media, MaxPlaylists)
    /\ playlists = <<>> /\ quality = <<>> /\ listing = <<>> /\ offered = 0
    /\ result = [kind |-> "none"]
    /\ segments = <<>> /\ heap = <<>> /\ original = <<>> /\ vods = <<>>
    /\ FilterIdle /\ JoinIdle

ParsePlaylists ==
    /\ pc = "master"
    /\ playlists' = parse_playlists(document)
    /\ pc' = "parsed"
    /\ UNCHANGED <<docVars, vods, filterVars, joinVars, document, quality,
                   listing, offered, result>>

SelectPlaylistByName ==
    /\ pc = "parsed"
    /\ \E q \in Qualities :
          /\ quality' = q
          /\ result' = select_playlist_by_name(playlists, q)
    /\ pc' = "selected"
    /\ UNCHANGED <<docVars, vods, filterVars, joinVars, document, playlists,
                   listing, offered>>

\* read_int answers with a number between its min and its max
SelectPlaylistInteractive ==
    /\ pc = "parsed"
    /\ listing' = SortedByKey(playlists)
    /\ offered' = InteractiveDefault(SortedByKey(playlists))
    /\ \E no \in 1..(Len(playlists) + 1) :
          result' = InteractiveChoice(SortedByKey(playlists), no)
    /\ pc' = "chosen"
    /\ UNCHANGED <<docVars, vods, filterVars, joinVars, document, playlists,
                   quality>>

NextSelect ==
    ParsePlaylists \/ SelectPlaylistByName \/ SelectPlaylistInteractive

SpecSelect == InitSelect /\ [][NextSelect]_vars

-----------------------------------------------------------------------------
(* Properties of filter_vods *)

\* Segment times as the contract states them: segStart(1) = 0,
\* segEnd(i) = segStart(i) + duration(i), segStart(i+1) = segEnd(i)
RECURSIVE SegStart(_)
SegStart(i) == IF i = 1 THEN 0 ELSE SegStart(i - 1) + vods[i - 1].duration

SegEnd(i) == SegStart(i) + vods[i].duration

Unset(b) == b = None \/ b = Some(0)

StartOrZero == IF start = None THEN 0 ELSE Val(start)

Keep(i) == /\ Unset(start) \/ SegEnd(i) > Val(start)
           /\ Unset(end) \/ SegStart(i) < Val(end)

StrictlyInside(b, i) == SegStart(i) < Val(b) /\ Val(b) < SegEnd(i)

PositiveDurations == \A i \in 1..Len(vods) : vods[i].duration > 0

FilterResult == <<filtered_vods, crop_start, crop_duration>>

\* C1: the walk keeps segStart as the running sum of the durations, and the
\* returned list holds segment i iff (start unset or segEnd(i) > start) and
\* (end unset or segStart(i) < end), None and 0 both being unset; the
\* retained segments are in index order, without duplicates, unaltered.
C1_Retention ==
    /\ (pc = "filter_loop" /\ idx <= Len(vods)) => vod_start = SegStart(idx)
    /\ pc = "filter_done" =>
        /\ \A i \in 1..Len(vods) :
              (\E k \in 1..Len(filtered_vods) : filtered_vods[k] = vods[i])
                  <=> Keep(i)
        /\ \A k, l \in 1..Len(filtered_vods) :
              k < l => filtered_vods[k].index < filtered_vods[l].index
        /\ \A k \in 1..Len(filtered_vods) :
              \E i \in 1..Len(vods) : filtered_vods[k] = vods[i]
        /\ vods = enumerate_vods(segments, heap)

\* a call with both bounds set that drops a leading and a trailing segment
C1_Witness ==
    /\ pc = "filter_done" /\ Truthy(start) /\ Truthy(end)
    /\ Len(vods) = 3 /\ filtered_vods = <<vods[2]>>

\* C2: with positive durations and start < end (or end unset), crop_duration
\* is set iff end lies strictly inside a segment's span, and it then equals
\* (sum of retained durations) - (crop_start or 0) - (segEnd - end), which
\* is end - start; on a boundary or beyond the content it stays None.
C2_CropDuration ==
    (/\ pc = "filter_done" /\ PositiveDurations
     /\ Unset(end) \/ StartOrZero < Val(end))
    =>
    /\ crop_duration # None <=>
          (~Unset(end) /\ \E i \in 1..Len(vods) : StrictlyInside(end, i))
    /\ \A i \in 1..Len(vods) :
          (~Unset(end) /\ StrictlyInside(end, i)) =>
              /\ crop_duration =
                    Some(SumDurations(filtered_vods) - OrZero(crop_start)
                         - (SegEnd(i) - Val(end)))
              /\ crop_duration = Some(Val(end) - StartOrZero)

\* three equal segments, start inside the first and end inside the last
C2_Witness ==
    /\ pc = "filter_done" /\ Len(vods) = 3
    /\ \A i \in 1..3 : vods[i].duration = 3
    /\ start = Some(2) /\ end = Some(8)
    /\ crop_start = Some(2) /\ crop_duration = Some(6)
    /\ Len(filtered_vods) = 3

\* C3: a bound of 0 gives the same triple as a bound of None, for either
\* bound and whatever the other bound is; with both bounds None or 0 every
\* segment is returned and both crop values are None.
C3_ZeroIsUnset ==
    pc = "filter_done" =>
        /\ start = Some(0) => FilterResult = filter_vods(vods, None, end)
        /\ end = Some(0) => FilterResult = filter_vods(vods, start, None)
        /\ (Unset(start) /\ Unset(end)) =>
              FilterResult = <<vods, None, None>>

\* a call with start = 0 on a playlist whose first segment has no duration
C3_Witness ==
    /\ pc = "filter_done" /\ start = Some(0) /\ end = Some(0)
    /\ Len(vods) = 3 /\ vods[1].duration = 0 /\ filtered_vods = vods

C10_Result ==
    (pc = "filter_done" /\ PositiveDurations) =>
        /\ crop_start # None <=>
              (~Unset(start) /\ \E i \in 1..Len(vods) : StrictlyInside(start, i))
        /\ \A i \in 1..Len(vods) :
              (~Unset(start) /\ StrictlyInside(start, i)) =>
                  /\ crop_start = Some(Val(start) - SegStart(i))
                  /\ 0 < Val(crop_start) /\ Val(crop_start) < vods[i].duration
                  /\ (Unset(end) \/ Val(start) < Val(end)) =>
                        (filtered_vods # <<>> /\ filtered_vods[1] = vods[i])

C10_AssignedOnce ==
    (pc = "filter_loop" /\ PositiveDurations /\ crop_start # None)
        => crop_start' = crop_start

\* C10: with positive durations, crop_start is set iff start is non-zero and
\* strictly inside a segment's span; it is start - segStart of that segment,
\* between 0 and its duration, that segment heads the returned list when
\* start < end or end is unset, and once assigned in the walk it is never
\* assigned again.
C10_CropStart == [] C10_Result /\ [][C10_AssignedOnce]_vars

\* start in the middle of the second segment
C10_Witness ==
    /\ pc = "filter_done" /\ PositiveDurations /\ Len(vods) = 3
    /\ start = Some(4) /\ SegStart(2) = 3 /\ crop_start = Some(1)
    /\ filtered_vods[1] = vods[2]

-----------------------------------------------------------------------------
(* Properties of make_join_playlist *)

\* The segment values the document holds now, in list order
DocumentValue == [ i \in 1..Len(segments) |-> heap[segments[i]] ]

\* The object of the original playlist that vod v was enumerated from
SegmentOf(v) == v.index + 1

EqualLengths == Len(retained) = Len(targets)

\* C4: with one target per retained vod, the returned segment list is an
\* order-preserving sub-list of the original one and has as many segments
\* as there are retained vods, also when two segments share a URI.
C4_Subsequence ==
    (pc = "joined" /\ EqualLengths) =>
        /\ Len(segments) = Len(retained)
        /\ \A k, l \in 1..Len(segments) : k < l => segments[k] < segments[l]
        /\ \A k \in 1..Len(segments) : segments[k] \in 1..Len(original)

\* C5: with equal lengths the k-th emitted segment is the k-th retained vod
\* and its URI is the final component of targets[k].
C5_Positional ==
    (pc = "joined" /\ EqualLengths) =>
        \A k \in 1..Len(segments) :
            /\ k <= Len(retained)
            /\ segments[k] = SegmentOf(retained[k])
            /\ heap[segments[k]].uri = targets[k].name

\* C6: with vods and targets of different lengths the call fails and no
\* playlist is returned.
C6_MismatchFails ==
    (pc = "joined" /\ ~EqualLengths) => returned.kind = "error"

\* C7: after the call the original document still has its full segment list
\* with every original URI, and what is returned holds none of the segment
\* objects of the original.
C7_InputUnchanged ==
    pc = "joined" =>
        /\ DocumentValue = original
        /\ (returned.kind = "ok" /\ returned.object = "document") =>
              \A k \in 1..Len(segments) : segments[k] \notin 1..Len(original)

-----------------------------------------------------------------------------
(* Properties of the selectors and of the ordering *)

PlaylistNames == [ i \in 1..Len(playlists) |-> playlists[i].name ]

\* Where the i-th name starts in the joined text, counted from 0
RECURSIVE NameOffset(_)
NameOffset(i) ==
    IF i = 1 THEN 0
    ELSE NameOffset(i - 1) + Len(PlaylistNames[i - 1]) + 2

\* text is the names in list order with ", " between neighbours
IsNameList(text) ==
    LET n == Len(PlaylistNames)
    IN  /\ n = 0 => text = <<>>
        /\ n > 0 => Len(text) = NameOffset(n) + Len(PlaylistNames[n])
        /\ \A i \in 1..n :
              /\ SubSeq(text, NameOffset(i) + 1,
                        NameOffset(i) + Len(PlaylistNames[i]))
                     = PlaylistNames[i]
              /\ i < n =>
                    /\ text[NameOffset(i) + Len(PlaylistNames[i]) + 1] = ","
                    /\ text[NameOffset(i) + Len(PlaylistNames[i]) + 2] = " "

NameOrGroupIsQuality(pl) == pl.name = quality \/ pl.group_id = quality

IsFirstSource(i) ==
    /\ playlists[i].is_source
    /\ \A j \in 1..(i - 1) : ~playlists[j].is_source

IsFirstMatch(i) ==
    /\ NameOrGroupIsQuality(playlists[i])
    /\ \A j \in 1..(i - 1) : ~NameOrGroupIsQuality(playlists[j])

\* C8: for "source" the first playlist with is_source is returned, or the
\* fixed error raised when there is none; for another quality the first
\* playlist whose name or group_id equals it is returned, and the call
\* fails iff none matches, the error naming every playlist in list order
\* joined by ", "; the list itself is left as parse_playlists returned it.
C8_SelectByName ==
    pc = "selected" =>
        /\ playlists = parse_playlists(document)
        /\ quality = SourceQuality =>
              /\ \A i \in 1..Len(playlists) :
                    IsFirstSource(i) => result = Ok(playlists[i])
              /\ (\A i \in 1..Len(playlists) : ~playlists[i].is_source) =>
                    /\ result.kind = "error"
                    /\ result.message = SourceNotFound
        /\ quality # SourceQuality =>
              /\ \A i \in 1..Len(playlists) :
                    IsFirstMatch(i) =>
                        result = Ok(playlists[i])
              /\ result.kind = "error" <=>
                    \A i \in 1..Len(playlists) :
                        ~NameOrGroupIsQuality(playlists[i])
              /\ result.kind = "error" =>
                    /\ SubSeq(result.message, 1, Len(quality) + 2) =
                          <<"Quality '">> \o quality
                              \o <<"' not found. Available qualities are: ">>
                    /\ IsNameList(SubSeq(result.message, Len(quality) + 3,
                                         Len(result.message)))

\* "4k" asked of 1080p60, 720p60, audio_only
C8_Witness ==
    /\ pc = "selected" /\ quality = N4k
    /\ PlaylistNames = <<N1080p60, N720p60, AudioOnly>>
    /\ result.kind = "error"
    /\ SubSeq(result.message, 5, Len(result.message)) =
          <<"1", "0", "8", "0", "p", "6", "0", ",", " ",
            "7", "2", "0", "p", "6", "0", ",", " ",
            "a", "u", "d", "i", "o", "_", "o", "n", "l", "y">>

SourceBeforeOthers(ps) ==
    \A i, j \in 1..Len(ps) :
        (ps[i].is_source /\ ~ps[j].is_source) => i < j

\* C9: in the lists ordered by _playlist_key a source rendition comes before
\* every rendition that is not a source, the key of a rendition that is not
\* a source being greater than 0 whatever its name is.
C9_SourceFirst ==
    /\ pc \in {"parsed", "selected", "chosen"} =>
          /\ SourceBeforeOthers(playlists)
          /\ \A i \in 1..Len(playlists) :
                ~playlists[i].is_source => _playlist_key(playlists[i]) > 0
    /\ pc = "chosen" => SourceBeforeOthers(listing)

====
